---- MODULE Spec2Model ----
(***************************************************************************)
(* Model of app.py, the SQL practice application: the sample database      *)
(* lifecycle (reset_db, init_db), the Run Query gate of main(), the query  *)
(* executor (run_query) and the schema viewer (get_schema_summary), run by *)
(* one or two browser sessions against one SQLite file.                    *)
(*                                                                         *)
(* Texts are sequences of one-character strings.  The store is the         *)
(* committed content of the database file; a session's uncommitted work    *)
(* lives in its transaction until it commits or rolls back.                *)
(***************************************************************************)
EXTENDS Naturals, Sequences, FiniteSets

\* ------------------------------------------------------------------ bounds
MaxPad == 1        \* longest run of whitespace put in front of a typed text
MaxTail == 3       \* longest run of semicolons and blanks put behind it
MaxLinger == 1     \* unreferenced, still open connections before a collection

Sessions == {1, 2}

\* -------------------------------------------------------------------- text
Whitespace == {" ", "\n"}

UpperCase == <<"A", "B", "C", "D", "E", "F", "G", "H", "I", "J", "K", "L", "M",
               "N", "O", "P", "Q", "R", "S", "T", "U", "V", "W", "X", "Y", "Z">>

LowerCase == <<"a", "b", "c", "d", "e", "f", "g", "h", "i", "j", "k", "l", "m",
               "n", "o", "p", "q", "r", "s", "t", "u", "v", "w", "x", "y", "z">>

\* str.lower() on one character.
LowerChar(c) ==
    IF \E i \in 1..26 : UpperCase[i] = c
    THEN LowerCase[CHOOSE i \in 1..26 : UpperCase[i] = c]
    ELSE c

\* str.lower()
Lower(t) == [i \in 1..Len(t) |-> LowerChar(t[i])]

\* str.lstrip(chars): drop leading characters while they are in chars.
RECURSIVE LStrip(_, _)
LStrip(t, chars) ==
    IF t # <<>> /\ Head(t) \in chars THEN LStrip(Tail(t), chars) ELSE t

\* A version of rstrip that removes at most one trailing character.
RStripOne(t, chars) ==
    IF t # <<>> /\ t[Len(t)] \in chars THEN SubSeq(t, 1, Len(t) - 1) ELSE t

\* str.rstrip(chars): drop trailing characters while they are in chars.
RECURSIVE RStrip(_, _)
RStrip(t, chars) ==
    IF t # <<>> /\ t[Len(t)] \in chars
    THEN RStrip(SubSeq(t, 1, Len(t) - 1), chars)
    ELSE t

\* str.strip()
Strip(t) == RStrip(LStrip(t, Whitespace), Whitespace)

\* A case-sensitive version of the prefix test.
StartsWithExact(t, p) ==
    Len(t) >= Len(p) /\ SubSeq(t, 1, Len(p)) = p

\* A prefix test that lets every text through.
PrefixIgnored(t, p) == TRUE

\* query.lower().startswith(p)
LowerStartsWith(t, p) ==
    Len(t) >= Len(p) /\ SubSeq(Lower(t), 1, Len(p)) = p

SELECT == <<"s", "e", "l", "e", "c", "t">>

\* A gate that only turns away the empty text.
GateWithoutPrefixCheck(text) ==
    IF Strip(text) = <<>> THEN [outcome |-> "empty", query |-> <<>>]
    ELSE [outcome |-> "approved", query |-> Strip(RStrip(Strip(text), {";"}))]

\* The gate of the Run Query branch of main(): the outcome and the text that
\* would be handed to run_query.
Gate(text) ==
    LET q1 == Strip(text)
        q2 == Strip(RStrip(q1, {";"}))
    IN  IF q1 = <<>> THEN [outcome |-> "empty", query |-> q1]
        ELSE IF ~LowerStartsWith(q2, SELECT)
             THEN [outcome |-> "disallowed", query |-> q2]
             ELSE [outcome |-> "approved", query |-> q2]

\* --------------------------------------------------------- typed-in texts
Q_ALL_USERS == <<"S", "E", "L", "E", "C", "T", " ", "*", " ", "F", "R", "O", "M", " ", "u", "s", "e", "r", "s">>
Q_ALL_ORDERS == <<"s", "e", "l", "e", "c", "t", " ", "*", " ", "f", "r", "o", "m", " ", "o", "r", "d", "e", "r", "s">>
Q_ONE == <<"S", "e", "l", "e", "c", "t", " ", "1">>
Q_BAD_COLUMN == <<"S", "E", "L", "E", "C", "T", " ", "n", "o", "p", "e", " ", "F", "R", "O", "M", " ", "u", "s", "e", "r", "s">>
Q_TYPO == <<"S", "E", "L", "E", "C", " ", "*", " ", "F", "R", "O", "M", " ", "u", "s", "e", "r", "s">>
Q_DELETE == <<"D", "E", "L", "E", "T", "E", " ", "F", "R", "O", "M", " ", "u", "s", "e", "r", "s">>
Q_DROP == <<"d", "r", "o", "p", " ", "t", "a", "b", "l", "e", " ", "o", "r", "d", "e", "r", "s">>
Q_STACKED == <<"s", "e", "l", "e", "c", "t", " ", "1", ";", "d", "r", "o", "p", " ", "t", "a", "b", "l", "e", " ", "u", "s", "e", "r", "s">>
Q_PREFIX_ONLY == <<"s", "e", "l", "e", "c", "t", "x">>

Bodies == {<<>>, SELECT, Q_ALL_USERS, Q_ALL_ORDERS, Q_ONE, Q_BAD_COLUMN, Q_TYPO,
           Q_DELETE, Q_DROP, Q_STACKED, Q_PREFIX_ONLY}

SeqsUpTo(S, n) == UNION {[1..k -> S] : k \in 0..n}

\* What a user can type into the text area: a body with blanks in front and
\* semicolons and blanks behind.
Inputs ==
    {pad \o body \o tail : pad \in SeqsUpTo(Whitespace, MaxPad),
                           body \in Bodies,
                           tail \in SeqsUpTo({";", " "}, MaxTail)}

\* The texts a user types one after another in one session.
Texts == {body \o tail : body \in Bodies, tail \in {<<>>, <<";">>}}

\* The texts typed while two sessions run side by side.
FewInputs == {Q_ALL_USERS \o <<";">>, Q_ALL_ORDERS, Q_BAD_COLUMN}

\* ------------------------------------------------------------------- store
\* DB_FILE as the relational engine sees it: whether the file exists and the
\* two tables.  A table has its declared columns, its rows in rowid order and
\* the AUTOINCREMENT counter kept in sqlite_sequence.
MissingTable == [exists |-> FALSE, cols |-> <<>>, rows |-> <<>>, seq |-> 0]

UsersCols == <<<<"id", "INTEGER">>, <<"name", "TEXT">>, <<"email", "TEXT">>,
               <<"city", "TEXT">>>>

OrdersCols == <<<<"id", "INTEGER">>, <<"user_id", "INTEGER">>, <<"amount", "REAL">>,
                <<"status", "TEXT">>, <<"created_at", "TEXT">>>>

ColsOf(t) == IF t = "users" THEN UsersCols ELSE OrdersCols

\* The users list of reset_db.
users ==
    <<[name |-> "Adarsh", email |-> "adarsh@mail.com", city |-> "Goa"],
      [name |-> "Pranjali", email |-> "pranjali@mail.com", city |-> "Mumbai"],
      [name |-> "Rahul", email |-> "rahul@mail.com", city |-> "Pune"],
      [name |-> "Amit", email |-> "amit@mail.com", city |-> "Delhi"]>>

\* The orders list of reset_db, built from the id_map read back from users.
orders(m) ==
    <<[user_id |-> m["Adarsh"], amount |-> 500, status |-> "PAID", created_at |-> "2026-01-10"],
      [user_id |-> m["Adarsh"], amount |-> 999, status |-> "PENDING", created_at |-> "2026-01-11"],
      [user_id |-> m["Pranjali"], amount |-> 1299, status |-> "PAID", created_at |-> "2026-01-11"],
      [user_id |-> m["Rahul"], amount |-> 2500, status |-> "CANCELLED", created_at |-> "2026-01-12"],
      [user_id |-> m["Amit"], amount |-> 799, status |-> "PAID", created_at |-> "2026-01-12"],
      [user_id |-> m["Pranjali"], amount |-> 1500, status |-> "PENDING", created_at |-> "2026-01-13"],
      [user_id |-> m["Rahul"], amount |-> 1800, status |-> "PAID", created_at |-> "2026-01-13"]>>

Ok(db) == [ok |-> TRUE, db |-> db, err |-> ""]
Fail(db, msg) == [ok |-> FALSE, db |-> db, err |-> msg]

NoSuchTable(t) == IF t = "users" THEN "no such table: users" ELSE "no such table: orders"
AlreadyExists(t) == IF t = "users" THEN "table users already exists"
                    ELSE "table orders already exists"

\* A DROP that leaves the table in place.
DropTableKeeps(db, t) == Ok(db)

\* DROP TABLE IF EXISTS t: the table, its rows and its sqlite_sequence entry go.
DropTable(db, t) == Ok([db EXCEPT ![t] = MissingTable])

\* CREATE TABLE t(...): an error when the table is there.
CreateTable(db, t) ==
    IF db[t].exists THEN Fail(db, AlreadyExists(t))
    ELSE Ok([db EXCEPT ![t] = [exists |-> TRUE, cols |-> ColsOf(t), rows |-> <<>>, seq |-> 0]])

MaxOf(S) == IF S = {} THEN 0 ELSE CHOOSE m \in S : \A x \in S : x <= m

\* The rowid an INTEGER PRIMARY KEY AUTOINCREMENT column assigns next.
NextId(table) ==
    MaxOf({table.seq} \cup {table.rows[i].id : i \in 1..Len(table.rows)}) + 1

WithId(values, id) ==
    [f \in DOMAIN values \cup {"id"} |-> IF f = "id" THEN id ELSE values[f]]

InsertRow(table, values) ==
    LET id == NextId(table)
    IN  [table EXCEPT !.rows = Append(@, WithId(values, id)), !.seq = id]

RECURSIVE InsertAll(_, _)
InsertAll(table, valuesSeq) ==
    IF valuesSeq = <<>> THEN table
    ELSE InsertAll(InsertRow(table, Head(valuesSeq)), Tail(valuesSeq))

\* cur.executemany("INSERT INTO t ...", valuesSeq)
InsertMany(db, t, valuesSeq) ==
    IF ~db[t].exists THEN Fail(db, NoSuchTable(t))
    ELSE Ok([db EXCEPT ![t] = InsertAll(@, valuesSeq)])

\* An id_map that keeps the first id read for a name.
IdMapFirst(rows) ==
    [n \in {rows[i].name : i \in 1..Len(rows)} |->
        rows[CHOOSE i \in 1..Len(rows) :
                /\ rows[i].name = n
                /\ \A j \in 1..Len(rows) : rows[j].name = n => i <= j].id]

\* {name: user_id for user_id, name in cur.fetchall()}: a later row with the
\* same name replaces the earlier one.
IdMap(rows) ==
    [n \in {rows[i].name : i \in 1..Len(rows)} |->
        rows[CHOOSE i \in 1..Len(rows) :
                /\ rows[i].name = n
                /\ \A j \in 1..Len(rows) : rows[j].name = n => j <= i].id]

NoIdMap == [n \in {} |-> 0]

\* ------------------------------------------------------------------ engine
\* The statement the engine is given by cursor.execute: blanks around it and
\* one closing semicolon do not count, keywords and names are caseless.
Statement(q) ==
    LET u == Strip(q)
        v == IF u # <<>> /\ u[Len(u)] = ";" THEN SubSeq(u, 1, Len(u) - 1) ELSE u
        t == Lower(Strip(v))
    IN  IF \E i \in 1..Len(t) : t[i] = ";" THEN "stacked"
        ELSE IF t = Lower(Q_ALL_USERS) THEN "all_users"
        ELSE IF t = Lower(Q_ALL_ORDERS) THEN "all_orders"
        ELSE IF t = Lower(Q_ONE) THEN "one"
        ELSE IF t = Lower(Q_BAD_COLUMN) THEN "bad_column"
        ELSE IF t = Lower(Q_DELETE) THEN "delete_users"
        ELSE IF t = Lower(Q_DROP) THEN "drop_orders"
        ELSE IF t = SELECT THEN "incomplete"
        ELSE "syntax"

\* Whether the statement changes the database, and how.
KindOf(stmt) ==
    IF stmt = "delete_users" THEN "DML"
    ELSE IF stmt = "drop_orders" THEN "DDL"
    ELSE "read"

Rows(rows) == [ok |-> TRUE, rows |-> rows, err |-> ""]
Error(msg) == [ok |-> FALSE, rows |-> <<>>, err |-> msg]

\* What the engine answers to a reading statement on db.
Select(stmt, db) ==
    CASE stmt = "all_users" ->
            IF db.users.exists THEN Rows(db.users.rows) ELSE Error(NoSuchTable("users"))
      [] stmt = "all_orders" ->
            IF db.orders.exists THEN Rows(db.orders.rows) ELSE Error(NoSuchTable("orders"))
      [] stmt = "one" -> Rows(<<[one |-> 1]>>)
      [] stmt = "bad_column" ->
            IF db.users.exists THEN Error("no such column: nope")
            ELSE Error(NoSuchTable("users"))
      [] stmt = "stacked" -> Error("You can only execute one statement at a time.")
      [] stmt = "incomplete" -> Error("incomplete input")
      [] OTHER -> Error("syntax error")

\* What a writing statement does to db.
Write(stmt, db) ==
    IF stmt = "delete_users"
    THEN IF db.users.exists THEN Ok([db EXCEPT !.users.rows = <<>>])
         ELSE Fail(db, NoSuchTable("users"))
    ELSE DropTable(db, "orders")

\* PRAGMA table_info(t), columns name and type: nothing for a missing table.
TableInfo(db, t) == IF db[t].exists THEN db[t].cols ELSE <<>>

\* "not os.path.exists(DB_FILE)" read as always true.
AlwaysReset(db) == TRUE

\* not os.path.exists(DB_FILE)
NeedsReset(db) == ~db.file

\* "except Exception" read as catching nothing.
CatchesNothing(msg) == FALSE

\* except Exception: every error of the engine and of the result reader is one.
Catches(msg) == TRUE

\* A connection that holds every statement back until commit.
NeverAutocommit(kind) == FALSE

\* The connection of sqlite3.connect(DB_FILE): a statement that is not INSERT,
\* UPDATE, DELETE or REPLACE is committed as soon as it has run, unless a
\* transaction is open; those four open one first.
Autocommit(kind) == kind # "DML"

\* ------------------------------------------------------------------- state
VARIABLES
    store,      \* the committed content of DB_FILE
    writer,     \* the session whose transaction holds the write lock, or 0
    txn,        \* per session: its open transaction and what it sees
    pc,         \* per session: where its run of main() stands
    clicked,    \* per session: the widget event this run of main() handles
    ret,        \* per session: who called reset_db in this run, then how it ended
    exc,        \* per session: the message of the exception in flight, or ""
    id_map,     \* per session: id_map of reset_db
    pre,        \* per session: the store as the reset_db it is in found it
    sql_input,  \* per session: st.session_state.sql_input
    query,      \* per session: the text handed to run_query
    gate,       \* per session: how the Run Query branch ended at the gate
    df,         \* per session: the rows run_query fetched
    result,     \* per session: what the Run Query branch displayed
    status,     \* per session: whether this run of main() died of an exception
    summary,    \* per session: the schema summary
    lingering   \* connections no longer referenced and not closed

vars == <<store, writer, txn, pc, clicked, ret, exc, id_map, pre, sql_input,
          query, gate, df, result, status, summary, lingering>>

NoTxn == [active |-> FALSE, db |-> [file |-> FALSE, users |-> MissingTable, orders |-> MissingTable]]
NoResult == [kind |-> "none", msg |-> "", rows |-> <<>>]
NoSummary == [users |-> <<>>, orders |-> <<>>]

\* What session s reads: its own uncommitted work, else the committed store.
View(s) == IF txn[s].active THEN txn[s].db ELSE store

\* The states the store can be found in.
MissingFile == [file |-> FALSE, users |-> MissingTable, orders |-> MissingTable]
EmptyFile == [file |-> TRUE, users |-> MissingTable, orders |-> MissingTable]
EmptyTables ==
    [file |-> TRUE,
     users |-> [exists |-> TRUE, cols |-> UsersCols, rows |-> <<>>, seq |-> 0],
     orders |-> [exists |-> TRUE, cols |-> OrdersCols, rows |-> <<>>, seq |-> 0]]
OtherRows ==
    [file |-> TRUE,
     users |-> [exists |-> TRUE, cols |-> UsersCols, seq |-> 9,
                rows |-> <<[id |-> 3, name |-> "Rahul", email |-> "r@x.org", city |-> "Goa"],
                           [id |-> 9, name |-> "Zed", email |-> "z@x.org", city |-> "Pune"]>>],
     orders |-> [exists |-> TRUE, cols |-> OrdersCols, seq |-> 5,
                 rows |-> <<[id |-> 5, user_id |-> 7, amount |-> 42, status |-> "PAID",
                             created_at |-> "2025-12-31"]>>]]
SeedDb ==
    [file |-> TRUE,
     users |-> [exists |-> TRUE, cols |-> UsersCols, seq |-> 4,
                rows |-> <<[id |-> 1, name |-> "Adarsh", email |-> "adarsh@mail.com", city |-> "Goa"],
                           [id |-> 2, name |-> "Pranjali", email |-> "pranjali@mail.com", city |-> "Mumbai"],
                           [id |-> 3, name |-> "Rahul", email |-> "rahul@mail.com", city |-> "Pune"],
                           [id |-> 4, name |-> "Amit", email |-> "amit@mail.com", city |-> "Delhi"]>>],
     orders |-> [exists |-> TRUE, cols |-> OrdersCols, seq |-> 7,
                 rows |-> <<[id |-> 1, user_id |-> 1, amount |-> 500, status |-> "PAID", created_at |-> "2026-01-10"],
                            [id |-> 2, user_id |-> 1, amount |-> 999, status |-> "PENDING", created_at |-> "2026-01-11"],
                            [id |-> 3, user_id |-> 2, amount |-> 1299, status |-> "PAID", created_at |-> "2026-01-11"],
                            [id |-> 4, user_id |-> 3, amount |-> 2500, status |-> "CANCELLED", created_at |-> "2026-01-12"],
                            [id |-> 5, user_id |-> 4, amount |-> 799, status |-> "PAID", created_at |-> "2026-01-12"],
                            [id |-> 6, user_id |-> 2, amount |-> 1500, status |-> "PENDING", created_at |-> "2026-01-13"],
                            [id |-> 7, user_id |-> 3, amount |-> 1800, status |-> "PAID", created_at |-> "2026-01-13"]>>]]

PriorStores == {MissingFile, EmptyFile, EmptyTables, OtherRows, SeedDb}

InitWith(stores, texts) ==
    /\ store \in stores
    /\ writer = 0
    /\ txn = [s \in Sessions |-> NoTxn]
    /\ pc = [s \in Sessions |-> "idle"]
    /\ clicked = [s \in Sessions |-> "none"]
    /\ ret = [s \in Sessions |-> "none"]
    /\ exc = [s \in Sessions |-> ""]
    /\ id_map = [s \in Sessions |-> NoIdMap]
    /\ pre = [s \in Sessions |-> MissingFile]
    /\ sql_input \in {[s \in Sessions |-> IF s = 1 THEN t ELSE <<>>] : t \in texts}
    /\ query = [s \in Sessions |-> <<>>]
    /\ gate = [s \in Sessions |-> "none"]
    /\ df = [s \in Sessions |-> <<>>]
    /\ result = [s \in Sessions |-> NoResult]
    /\ status = [s \in Sessions |-> "ok"]
    /\ summary = [s \in Sessions |-> NoSummary]
    /\ lingering = 0

\* ------------------------------------------------- statements and locking
Outcome(st, tx, w, e) == [store |-> st, txn |-> tx, writer |-> w, exc |-> e]

OthersInTxn(s) == \E o \in Sessions \ {s} : txn[o].active

\* Session s runs a changing statement whose effect on what s sees is r.
\* Inside a transaction the change stays with s, which needs the write lock;
\* an autocommitted change needs the file to itself.  A lock that another
\* session keeps for too long ends the wait with "database is locked".
Change(s, kind, r) ==
    LET inTxn == txn[s].active \/ ~Autocommit(kind)
        opened == [active |-> inTxn, db |-> IF txn[s].active THEN txn[s].db ELSE store]
    IN  IF ~r.ok THEN Outcome(store, opened, writer, r.err)
        ELSE IF inTxn
        THEN IF writer \notin {0, s}
             THEN Outcome(store, opened, writer, "database is locked")
             ELSE Outcome(store, [active |-> TRUE, db |-> r.db], s, "")
        ELSE IF OthersInTxn(s)
             THEN Outcome(store, opened, writer, "database is locked")
             ELSE Outcome(r.db, opened, writer, "")

\* A commit that ends the transaction and keeps none of its work.
CommitDiscards(s) == Outcome(store, NoTxn, IF writer = s THEN 0 ELSE writer, "")

\* conn.commit()
Commit(s) ==
    IF ~txn[s].active THEN Outcome(store, txn[s], writer, "")
    ELSE IF OthersInTxn(s) THEN Outcome(store, txn[s], writer, "database is locked")
    ELSE Outcome(IF writer = s THEN txn[s].db ELSE store, NoTxn,
                 IF writer = s THEN 0 ELSE writer, "")

\* conn.rollback()
Rollback(s) == Outcome(store, NoTxn, IF writer = s THEN 0 ELSE writer, "")

\* Leaving "with get_connection() as conn": commit, or roll back when an
\* exception is in flight.  The connection is not closed.
WithExit(s) ==
    IF exc[s] = "" /\ Commit(s).exc = ""
    THEN Commit(s)
    ELSE [Rollback(s) EXCEPT !.exc = IF exc[s] # "" THEN exc[s] ELSE Commit(s).exc]

\* The connection of a finished call is garbage and still open; the collector
\* closes what it finds, at the latest when MaxLinger of them wait.
Abandon(n) == IF n >= MaxLinger THEN 1 ELSE n + 1

Goto(s, label) == pc' = [pc EXCEPT ![s] = label]

\* Session s takes the outcome o of a statement and goes on, or leaves the
\* with block when the statement raised.
Take(s, o, next, exit) ==
    /\ store' = o.store
    /\ txn' = [txn EXCEPT ![s] = o.txn]
    /\ writer' = o.writer
    /\ exc' = [exc EXCEPT ![s] = o.exc]
    /\ Goto(s, IF o.exc = "" THEN next ELSE exit)

\* sqlite3.connect(DB_FILE) creates the file when it is missing.
Connect == store' = [store EXCEPT !.file = TRUE]

\* ------------------------------------------------------------- main(): events
\* A widget event starts a run of main(); what the last run displayed is gone.
StartRun(s, event) ==
    /\ pc[s] = "idle"
    /\ clicked' = [clicked EXCEPT ![s] = event]
    /\ Goto(s, "init_db")
    /\ query' = [query EXCEPT ![s] = <<>>]
    /\ gate' = [gate EXCEPT ![s] = "none"]
    /\ df' = [df EXCEPT ![s] = <<>>]
    /\ result' = [result EXCEPT ![s] = NoResult]
    /\ status' = [status EXCEPT ![s] = "ok"]
    /\ summary' = [summary EXCEPT ![s] = NoSummary]
    /\ ret' = [ret EXCEPT ![s] = "none"]
    /\ UNCHANGED <<store, writer, txn, exc, id_map, pre, lingering>>

PageLoad(s) == StartRun(s, "load") /\ UNCHANGED sql_input

EditText(s, texts) ==
    /\ \E t \in texts : sql_input' = [sql_input EXCEPT ![s] = t]
    /\ StartRun(s, "edit")

ClickRun(s) == StartRun(s, "run") /\ UNCHANGED sql_input

ClickReset(s) == StartRun(s, "reset") /\ UNCHANGED sql_input

\* init_db()
InitDb(s) ==
    /\ pc[s] = "init_db"
    /\ IF NeedsReset(store)
       THEN Goto(s, "r_connect") /\ ret' = [ret EXCEPT ![s] = "init"]
       ELSE Goto(s, "buttons") /\ UNCHANGED ret
    /\ UNCHANGED <<store, writer, txn, clicked, exc, id_map, pre, sql_input, query,
                   gate, df, result, status, summary, lingering>>

\* The two buttons of main(): reset_db() on Reset, the gate on Run Query.
Buttons(s) ==
    /\ pc[s] = "buttons"
    /\ IF clicked[s] = "reset"
       THEN /\ Goto(s, "r_connect")
            /\ ret' = [ret EXCEPT ![s] = "button"]
            /\ UNCHANGED <<query, gate, result>>
       ELSE IF clicked[s] = "run"
       THEN LET g == Gate(sql_input[s])
            IN  /\ gate' = [gate EXCEPT ![s] = g.outcome]
                /\ query' = [query EXCEPT ![s] = g.query]
                /\ result' = [result EXCEPT ![s] =
                       IF g.outcome = "empty"
                       THEN [kind |-> "warning", msg |-> "Please enter a SQL query.", rows |-> <<>>]
                       ELSE IF g.outcome = "disallowed"
                       THEN [kind |-> "error",
                             msg |-> "Only SELECT queries are allowed in this beginner app (for safety).",
                             rows |-> <<>>]
                       ELSE NoResult]
                /\ Goto(s, IF g.outcome = "approved" THEN "q_connect" ELSE "s_connect")
                /\ UNCHANGED ret
       ELSE Goto(s, "s_connect") /\ UNCHANGED <<ret, query, gate, result>>
    /\ UNCHANGED <<store, writer, txn, clicked, exc, id_map, pre, sql_input, df,
                   status, summary, lingering>>

\* ---------------------------------------------------------------- reset_db
ResetFrame == <<ret, clicked, sql_input, query, gate, df, result, status, summary, lingering>>

\* with get_connection() as conn
ResetConnect(s) ==
    /\ pc[s] = "r_connect"
    /\ Connect
    /\ pre' = [pre EXCEPT ![s] = store]
    /\ Goto(s, "r_drop_orders")
    /\ UNCHANGED <<writer, txn, exc, id_map>>
    /\ UNCHANGED ResetFrame

\* DROP TABLE IF EXISTS orders
DropOrders(s) ==
    /\ pc[s] = "r_drop_orders"
    /\ Take(s, Change(s, "DDL", DropTable(View(s), "orders")), "r_drop_users", "r_exit")
    /\ UNCHANGED <<id_map, pre>>
    /\ UNCHANGED ResetFrame

\* DROP TABLE IF EXISTS users
DropUsers(s) ==
    /\ pc[s] = "r_drop_users"
    /\ Take(s, Change(s, "DDL", DropTable(View(s), "users")), "r_create_users", "r_exit")
    /\ UNCHANGED <<id_map, pre>>
    /\ UNCHANGED ResetFrame

\* CREATE TABLE users(...)
CreateUsers(s) ==
    /\ pc[s] = "r_create_users"
    /\ Take(s, Change(s, "DDL", CreateTable(View(s), "users")), "r_create_orders", "r_exit")
    /\ UNCHANGED <<id_map, pre>>
    /\ UNCHANGED ResetFrame

\* CREATE TABLE orders(...)
CreateOrders(s) ==
    /\ pc[s] = "r_create_orders"
    /\ Take(s, Change(s, "DDL", CreateTable(View(s), "orders")), "r_insert_users", "r_exit")
    /\ UNCHANGED <<id_map, pre>>
    /\ UNCHANGED ResetFrame

\* cur.executemany("INSERT INTO users ...", users)
InsertUsers(s) ==
    /\ pc[s] = "r_insert_users"
    /\ Take(s, Change(s, "DML", InsertMany(View(s), "users", users)), "r_select", "r_exit")
    /\ UNCHANGED <<id_map, pre>>
    /\ UNCHANGED ResetFrame

\* cur.execute("SELECT id, name FROM users") and the id_map built from it
SelectIds(s) ==
    /\ pc[s] = "r_select"
    /\ IF View(s).users.exists
       THEN /\ id_map' = [id_map EXCEPT ![s] = IdMap(View(s).users.rows)]
            /\ Goto(s, "r_insert_orders")
            /\ UNCHANGED exc
       ELSE /\ exc' = [exc EXCEPT ![s] = NoSuchTable("users")]
            /\ Goto(s, "r_exit")
            /\ UNCHANGED id_map
    /\ UNCHANGED <<store, writer, txn, pre>>
    /\ UNCHANGED ResetFrame

\* cur.executemany("INSERT INTO orders ...", orders)
InsertOrders(s) ==
    /\ pc[s] = "r_insert_orders"
    /\ Take(s, Change(s, "DML", InsertMany(View(s), "orders", orders(id_map[s]))),
            "r_commit", "r_exit")
    /\ UNCHANGED <<id_map, pre>>
    /\ UNCHANGED ResetFrame

\* conn.commit()
ResetCommit(s) ==
    /\ pc[s] = "r_commit"
    /\ Take(s, Commit(s), "r_exit", "r_exit")
    /\ UNCHANGED <<id_map, pre>>
    /\ UNCHANGED ResetFrame

\* The end of the with block and of reset_db.  A reset_db that raised ends
\* this run of main(): neither caller catches.
ResetExit(s) ==
    /\ pc[s] = "r_exit"
    /\ LET o == WithExit(s)
       IN  /\ store' = o.store
           /\ txn' = [txn EXCEPT ![s] = o.txn]
           /\ writer' = o.writer
           /\ IF o.exc = ""
              THEN /\ Goto(s, IF ret[s] = "init" THEN "buttons" ELSE "s_connect")
                   /\ ret' = [ret EXCEPT ![s] = "returned"]
                   /\ UNCHANGED status
              ELSE /\ Goto(s, "idle")
                   /\ ret' = [ret EXCEPT ![s] = "raised"]
                   /\ status' = [status EXCEPT ![s] = "exception"]
    /\ exc' = [exc EXCEPT ![s] = ""]
    /\ id_map' = [id_map EXCEPT ![s] = NoIdMap]
    /\ pre' = [pre EXCEPT ![s] = MissingFile]
    /\ lingering' = Abandon(lingering)
    /\ UNCHANGED <<clicked, sql_input, query, gate, df, result, summary>>

\* --------------------------------------------------------------- run_query
QueryFrame == <<clicked, ret, id_map, pre, sql_input, query, gate, status, summary>>

\* with get_connection() as conn
QueryConnect(s) ==
    /\ pc[s] = "q_connect"
    /\ Connect
    /\ Goto(s, "q_exec")
    /\ UNCHANGED <<writer, txn, exc, df, result, lingering>>
    /\ UNCHANGED QueryFrame

\* pd.read_sql_query(query, conn): run the statement, read its rows.  A
\* statement that yields no rows has run when the reader fails on it.
QueryExec(s) ==
    /\ pc[s] = "q_exec"
    /\ LET stmt == Statement(query[s])
       IN  IF KindOf(stmt) = "read"
           THEN LET r == Select(stmt, View(s))
                IN  /\ df' = [df EXCEPT ![s] = r.rows]
                    /\ exc' = [exc EXCEPT ![s] = r.err]
                    /\ UNCHANGED <<store, writer, txn>>
           ELSE LET o == Change(s, KindOf(stmt), Write(stmt, View(s)))
                IN  /\ store' = o.store
                    /\ txn' = [txn EXCEPT ![s] = o.txn]
                    /\ writer' = o.writer
                    /\ exc' = [exc EXCEPT ![s] =
                                  IF o.exc = "" THEN "'NoneType' object is not iterable"
                                  ELSE o.exc]
                    /\ UNCHANGED df
    /\ Goto(s, "q_exit")
    /\ UNCHANGED <<result, lingering>>
    /\ UNCHANGED QueryFrame

\* The end of the with block and of run_query, then the try of main(): the
\* rows are displayed, or the message of the exception.
QueryExit(s) ==
    /\ pc[s] = "q_exit"
    /\ LET o == WithExit(s)
       IN  /\ store' = o.store
           /\ txn' = [txn EXCEPT ![s] = o.txn]
           /\ writer' = o.writer
           /\ IF o.exc = ""
              THEN /\ result' = [result EXCEPT ![s] = [kind |-> "rows", msg |-> "", rows |-> df[s]]]
                   /\ Goto(s, "s_connect")
                   /\ UNCHANGED status
              ELSE IF Catches(o.exc)
              THEN /\ result' = [result EXCEPT ![s] = [kind |-> "error", msg |-> o.exc, rows |-> <<>>]]
                   /\ Goto(s, "s_connect")
                   /\ UNCHANGED status
              ELSE /\ Goto(s, "idle")
                   /\ status' = [status EXCEPT ![s] = "exception"]
                   /\ UNCHANGED result
    /\ exc' = [exc EXCEPT ![s] = ""]
    /\ lingering' = Abandon(lingering)
    /\ UNCHANGED <<clicked, ret, id_map, pre, sql_input, query, gate, df, summary>>

\* ------------------------------------------------------ get_schema_summary
SchemaFrame == <<writer, txn, clicked, ret, exc, id_map, pre, sql_input, query, gate,
                 df, result, status>>

\* with get_connection() as conn
SchemaConnect(s) ==
    /\ pc[s] = "s_connect"
    /\ Connect
    /\ Goto(s, "s_users")
    /\ UNCHANGED <<summary, lingering>>
    /\ UNCHANGED SchemaFrame

\* PRAGMA table_info(users)
SchemaUsers(s) ==
    /\ pc[s] = "s_users"
    /\ summary' = [summary EXCEPT ![s].users = TableInfo(View(s), "users")]
    /\ Goto(s, "s_orders")
    /\ UNCHANGED <<store, lingering>>
    /\ UNCHANGED SchemaFrame

\* PRAGMA table_info(orders)
SchemaOrders(s) ==
    /\ pc[s] = "s_orders"
    /\ summary' = [summary EXCEPT ![s].orders = TableInfo(View(s), "orders")]
    /\ Goto(s, "s_exit")
    /\ UNCHANGED <<store, lingering>>
    /\ UNCHANGED SchemaFrame

\* The end of the with block and of get_schema_summary; main() is done.
SchemaExit(s) ==
    /\ pc[s] = "s_exit"
    /\ Goto(s, "idle")
    /\ lingering' = Abandon(lingering)
    /\ UNCHANGED <<store, summary>>
    /\ UNCHANGED SchemaFrame

\* The collector closes the connections nothing refers to.
Collect ==
    /\ lingering > 0
    /\ lingering' = 0
    /\ UNCHANGED <<store, writer, txn, pc, clicked, ret, exc, id_map, pre, sql_input,
                   query, gate, df, result, status, summary>>

\* ---------------------------------------------------------- specifications
MainSteps(s) == InitDb(s) \/ Buttons(s)

ResetSteps(s) ==
    \/ ResetConnect(s) \/ DropOrders(s) \/ DropUsers(s) \/ CreateUsers(s)
    \/ CreateOrders(s) \/ InsertUsers(s) \/ SelectIds(s) \/ InsertOrders(s)
    \/ ResetCommit(s) \/ ResetExit(s)

QuerySteps(s) == QueryConnect(s) \/ QueryExec(s) \/ QueryExit(s)

SchemaSteps(s) == SchemaConnect(s) \/ SchemaUsers(s) \/ SchemaOrders(s) \/ SchemaExit(s)

\* One session, any prior store, the user typing one text after another.
Init == InitWith(PriorStores, {<<>>})

Next ==
    \/ PageLoad(1) \/ EditText(1, Texts) \/ ClickRun(1) \/ ClickReset(1)
    \/ MainSteps(1) \/ ResetSteps(1) \/ QuerySteps(1) \/ SchemaSteps(1)
    \/ Collect

Spec == Init /\ [][Next]_vars

\* One session whose text area holds any of the texts of Inputs.
InitG == InitWith({EmptyFile, SeedDb}, Inputs)

NextG ==
    \/ PageLoad(1) \/ ClickRun(1) \/ ClickReset(1)
    \/ MainSteps(1) \/ ResetSteps(1) \/ QuerySteps(1) \/ SchemaSteps(1)
    \/ Collect

SpecG == InitG /\ [][NextG]_vars

\* Two sessions, both free to reset.
InitC == InitWith({MissingFile, OtherRows, SeedDb}, {<<>>})

NextC ==
    \/ \E s \in Sessions :
          PageLoad(s) \/ ClickReset(s) \/ MainSteps(s) \/ ResetSteps(s) \/ SchemaSteps(s)
    \/ Collect

SpecC == InitC /\ [][NextC]_vars

\* Session 1 resets while session 2 only reads a store that exists.
InitR == InitWith({OtherRows, SeedDb}, {<<>>})

NextR ==
    \/ ClickReset(1)
    \/ \E s \in Sessions :
          \/ PageLoad(s) \/ EditText(s, FewInputs) \/ ClickRun(s)
          \/ MainSteps(s) \/ ResetSteps(s) \/ QuerySteps(s) \/ SchemaSteps(s)
    \/ Collect

SpecR == InitR /\ [][NextR]_vars


\* ------------------------------------------------------------------ claims
ResetLabels == {"r_connect", "r_drop_orders", "r_drop_users", "r_create_users",
                "r_create_orders", "r_insert_users", "r_select", "r_insert_orders",
                "r_commit", "r_exit"}

QueryLabels == {"q_connect", "q_exec", "q_exit"}

\* The length of the longest run of characters of chars that ends at position
\* n of t.
RunBefore(t, n, chars) ==
    CHOOSE k \in 0..n :
        /\ \A i \in (n - k + 1)..n : t[i] \in chars
        /\ k = n \/ t[n - k] \notin chars

\* The length of the longest run of characters of chars at the start of t.
RunAtStart(t, chars) ==
    CHOOSE k \in 0..Len(t) :
        /\ \A i \in 1..k : t[i] \in chars
        /\ k = Len(t) \/ t[k + 1] \notin chars

IsBlank(t) == \A i \in 1..Len(t) : t[i] \in Whitespace

\* t, read from its first character that is not a blank, spells "select" in
\* small or capital letters.
BeginsWithSelect(t) ==
    LET k == RunAtStart(t, Whitespace)
    IN  /\ Len(t) >= k + 6
        /\ \A i \in 1..6 : \E c \in {SELECT[i]} \cup {UpperCase[j] : j \in {j \in 1..26 : LowerCase[j] = SELECT[i]}} :
               t[k + i] = c

\* C1: when reset_db() is about to return, and after it has returned, it has
\* not raised and the store holds exactly the seed data (4 users, 7 orders with
\* the literal values), whatever the store held before.
C1_ResetYieldsSeed ==
    /\ pc[1] = "r_exit" => exc[1] = "" /\ ~txn[1].active /\ store = SeedDb
    /\ ret[1] = "returned" => store = SeedDb
    /\ ret[1] # "raised"

C1_Witness == pc[1] = "r_exit" /\ pre[1] = OtherRows /\ store = SeedDb

\* C2: init_db() on a store file that exists changes nothing and goes on with
\* main(), whatever the file holds; on a missing file it runs reset_db(), which
\* leaves the seed data.
C2_InitDb ==
    /\ [][(pc[1] = "init_db" /\ pc'[1] # "init_db") =>
             IF store.file
             THEN store' = store /\ pc'[1] = "buttons" /\ ret'[1] = "none"
             ELSE pc'[1] = "r_connect" /\ ret'[1] = "init"]_vars
    /\ []((pc[1] = "r_exit" /\ ret[1] = "init") => ~pre[1].file /\ store = SeedDb)

C2_Witness == pc[1] = "buttons" /\ ret[1] = "none" /\ store = OtherRows

\* C3: the gate answers "empty" exactly for a text of blanks only, otherwise
\* "disallowed" exactly when the text does not begin, blanks aside and in any
\* letter case, with "select", otherwise "approved".
C3_GateOutcome ==
    gate[1] # "none" =>
        gate[1] = IF IsBlank(sql_input[1]) THEN "empty"
                  ELSE IF ~BeginsWithSelect(sql_input[1]) THEN "disallowed"
                  ELSE "approved"

C3_Witness == gate[1] = "disallowed" /\ sql_input[1] = Q_DELETE \o <<";">>

\* C4 as stated: the executor gets the text trimmed, less exactly one closing
\* semicolon, trimmed again.
C4_OneSemicolon ==
    gate[1] = "approved" =>
        query[1] = Strip(RStripOne(Strip(sql_input[1]), {";"}))

\* C4 as amended: the executor gets the text trimmed, less every closing
\* semicolon of the run at its end, trimmed again, and otherwise unchanged.
C4_AllSemicolons ==
    gate[1] = "approved" =>
        LET t == sql_input[1]
            a == RunAtStart(t, Whitespace)
            b == Len(t) - RunBefore(t, Len(t), Whitespace)
            c == b - RunBefore(t, b, {";"})
            d == c - RunBefore(t, c, Whitespace)
        IN  query[1] = SubSeq(t, a + 1, d)

C4_Witness ==
    gate[1] = "approved" /\ sql_input[1] = Q_ONE \o <<";", ";">> /\ query[1] = Q_ONE

\* C5: a text that is blank or does not begin with "select" never reaches
\* run_query: the run is never at a step of run_query, fetches no rows, and the
\* step that rejects it leaves the store and the connections as they were.
C5_RejectedNeverRuns ==
    /\ []((clicked[1] = "run" /\ (IsBlank(sql_input[1]) \/ ~BeginsWithSelect(sql_input[1]))) =>
             pc[1] \notin QueryLabels /\ result[1].kind # "rows")
    /\ [][(pc[1] = "buttons" /\ gate'[1] \in {"empty", "disallowed"}) =>
             store' = store /\ lingering' = lingering /\ pc'[1] = "s_connect"]_vars

C5_Witness ==
    gate[1] = "disallowed" /\ sql_input[1] = Q_DROP /\ pc[1] = "idle" /\ store = SeedDb

\* C6: no step of the Run Query branch changes the store, whatever the text;
\* the store changes only in steps of reset_db.
C6_RunLeavesStore ==
    /\ [][(clicked[1] = "run" /\ pc[1] \in QueryLabels \cup {"buttons"}) => store' = store]_vars
    /\ [][store' # store => pc[1] \in ResetLabels]_vars

C6_Witness ==
    /\ clicked[1] = "run" /\ pc[1] = "idle" /\ store = OtherRows
    /\ sql_input[1] = Q_STACKED /\ result[1].kind = "error"

\* C7: when run_query raises, the Run Query branch displays the message of the
\* exception, main() goes on to the schema viewer instead of dying, and the
\* store and the text area are as before; the run ends idle, ready for the
\* next event.
C7_EngineError ==
    /\ [][(pc[1] = "q_exit" /\ exc[1] # "" /\ pc'[1] # "q_exit") =>
             /\ result'[1] = [kind |-> "error", msg |-> exc[1], rows |-> <<>>]
             /\ pc'[1] = "s_connect" /\ status'[1] = "ok" /\ exc'[1] = ""
             /\ store' = store /\ sql_input' = sql_input]_vars
    /\ []((gate[1] = "approved" /\ result[1].kind = "error") =>
             status[1] = "ok" /\ pc[1] \in {"s_connect", "s_users", "s_orders", "s_exit", "idle"})

C7_Witness ==
    /\ pc[1] = "idle" /\ status[1] = "ok" /\ store = SeedDb
    /\ sql_input[1] = Q_BAD_COLUMN
    /\ result[1] = [kind |-> "error", msg |-> "no such column: nope", rows |-> <<>>]

\* C8: whenever the session is not inside reset_db, run_query or
\* get_schema_summary, no connection is open.
C8_AllClosed ==
    pc[1] \in {"idle", "init_db", "buttons"} => lingering = 0

\* C9: while session 1 is inside reset_db, what session 2 reads is the
\* committed store, and that is an intermediate state: no tables between the
\* drops and the creates, tables without rows from the creates to the commit;
\* neither the store reset_db found nor the seeded store.
C9_ResetVisible ==
    /\ (pc[1] \in {"r_create_users"} /\ exc[1] = "") =>
           ~View(2).users.exists /\ ~View(2).orders.exists
    /\ (pc[1] \in {"r_insert_users", "r_select", "r_insert_orders", "r_commit"} /\ exc[1] = "") =>
           View(2) = EmptyTables
    /\ (pc[1] \in {"r_create_users", "r_create_orders", "r_insert_users", "r_select",
                   "r_insert_orders", "r_commit"} /\ exc[1] = "") =>
           View(2) \notin {pre[1], SeedDb}

C9_Witness ==
    /\ pc[1] \in {"r_insert_users", "r_select", "r_insert_orders", "r_commit"}
    /\ pre[1] = SeedDb
    /\ Statement(query[2]) = "all_orders"
    /\ result[2] = [kind |-> "rows", msg |-> "", rows |-> <<>>]

Finished(s) == ret[s] \in {"returned", "raised"}

\* C10 as stated: once both sessions' reset_db calls have finished, the store
\* holds exactly the seed data.
C10_SeedAfterBoth == (\A s \in Sessions : Finished(s)) => store = SeedDb

\* rows is k whole copies of the fixture, one after the other, under
\* ascending ids; idless compares a row with a fixture entry.
Copies(rows, fixture, k, same(_, _)) ==
    /\ Len(rows) = k * Len(fixture)
    /\ \A i \in 1..Len(rows) : same(rows[i], fixture[((i - 1) % Len(fixture)) + 1])
    /\ \A i \in 1..Len(rows), j \in 1..Len(rows) : i < j => rows[i].id < rows[j].id

SameUser(row, u) == row.name = u.name /\ row.email = u.email /\ row.city = u.city

SameOrder(row, o) ==
    row.amount = o.amount /\ row.status = o.status /\ row.created_at = o.created_at

\* C10 as amended: once both sessions' reset_db calls have finished, each
\* table holds no, one or two whole copies of its seed rows (a missing table
\* holds none); the order rows need not refer to a user row that is there.
C10_WholeCopies ==
    (\A s \in Sessions : Finished(s)) =>
        /\ \E k \in 0..2 : Copies(store.users.rows, users, k, SameUser)
        /\ \E k \in 0..2 : Copies(store.orders.rows, orders([n \in {"Adarsh", "Pranjali", "Rahul", "Amit"} |-> 0]), k, SameOrder)

C10_Witness ==
    /\ \A s \in Sessions : ret[s] = "returned"
    /\ Len(store.users.rows) = 8 /\ Len(store.orders.rows) = 14

====
